---- MODULE Spec2Model ----
(***************************************************************************)
(* Model of terraform-provider-azidentity: provider configuration is       *)
(* parsed into SDK credential constructors (selectCredentials), the built  *)
(* credentials are chained (setupCredentialChain), and the ephemeral       *)
(* resource asks the chain for a token (Configure / Open).                 *)
(***************************************************************************)
EXTENDS Integers, Sequences, FiniteSets, TLC

(***************************************************************************)
(* Values                                                                  *)
(***************************************************************************)

\* types.String states other than a known string; os.LookupEnv's "not set".
NULL == "<null>"
UNKNOWN == "<unknown>"
ABSENT == "<absent>"

\* Longest credentials list explored.
MaxCreds == 2

\* diag.Diagnostic == nil
NoDiag == [sev |-> "none", path |-> <<>>, summary |-> ""]

NewAttributeWarningDiagnostic(p, summary) ==
    [sev |-> "warning", path |-> p, summary |-> summary]

NewAttributeErrorDiagnostic(p, summary) ==
    [sev |-> "error", path |-> p, summary |-> summary]

\* diag.Diagnostics.Append for one diagnostic: nil and duplicates are skipped.
Append1(diags, d) ==
    IF d = NoDiag \/ (\E k \in 1..Len(diags) : diags[k] = d)
    THEN diags
    ELSE Append(diags, d)

RECURSIVE AppendAll(_, _)
\* diag.Diagnostics.Append(in...)
AppendAll(diags, in) ==
    IF in = <<>> THEN diags
    ELSE AppendAll(Append1(diags, Head(in)), Tail(in))

HasError(diags) == \E k \in 1..Len(diags) : diags[k].sev = "error"

\* basetypes.StringValue.ValueString: "" for null and unknown.
ValueString(s) == IF s \in {NULL, UNKNOWN} THEN "" ELSE s

(***************************************************************************)
(* models.go: the parameter structs and their tags                         *)
(***************************************************************************)

APcFields ==
    << [name |-> "TenantID", env |-> <<"ARM_TENANT_ID", "AZURE_TENANT_ID">>, missing |-> "none"],
       [name |-> "ClientID", env |-> <<"ARM_CLIENT_ID", "AZURE_CLIENT_ID">>, missing |-> "warn"],
       [name |-> "ServiceConnectionID",
        env |-> <<"ARM_OIDC_AZURE_SERVICE_CONNECTION_ID", "AZURESUBSCRIPTION_SERVICE_CONNECTION_ID">>,
        missing |-> "warn"],
       [name |-> "SystemAccessToken", env |-> <<"ARM_OIDC_REQUEST_TOKEN", "SYSTEM_ACCESSTOKEN">>,
        missing |-> "warn"] >>

CScFields ==
    << [name |-> "TenantID", env |-> <<>>, missing |-> "none"],
       [name |-> "ClientID", env |-> <<>>, missing |-> "none"],
       [name |-> "ClientSecret", env |-> <<>>, missing |-> "none"] >>

CCcFields ==
    << [name |-> "TenantID", env |-> <<>>, missing |-> "none"],
       [name |-> "ClientID", env |-> <<>>, missing |-> "none"],
       [name |-> "CertificatePath", env |-> <<>>, missing |-> "none"],
       [name |-> "CertificatePassword", env |-> <<>>, missing |-> "none"] >>

MIcFields ==
    << [name |-> "ClientID", env |-> <<>>, missing |-> "none"] >>

WIcFields ==
    << [name |-> "TenantID", env |-> <<>>, missing |-> "none"],
       [name |-> "ClientID", env |-> <<>>, missing |-> "none"] >>

FieldNames(fields) == {fields[k].name : k \in 1..Len(fields)}

EnvNames ==
    {"ARM_TENANT_ID", "AZURE_TENANT_ID", "ARM_CLIENT_ID", "AZURE_CLIENT_ID",
     "ARM_OIDC_AZURE_SERVICE_CONNECTION_ID", "AZURESUBSCRIPTION_SERVICE_CONNECTION_ID",
     "ARM_OIDC_REQUEST_TOKEN", "SYSTEM_ACCESSTOKEN"}

(***************************************************************************)
(* parseField                                                              *)
(***************************************************************************)

RECURSIVE LookupFirst_SkipEmpty(_, _)
\* Variant of LookupFirst that passes over a variable set to the empty string.
LookupFirst_SkipEmpty(envs, e) ==
    IF envs = <<>> THEN ABSENT
    ELSE IF e[Head(envs)] \notin {ABSENT, ""} THEN e[Head(envs)]
    ELSE LookupFirst_SkipEmpty(Tail(envs), e)

RECURSIVE LookupFirst(_, _)
\* the loop over strings.Split(envs, ","): value of the first name that
\* os.LookupEnv reports as set, ABSENT when none is.
LookupFirst(envs, e) ==
    IF envs = <<>> THEN ABSENT
    ELSE IF e[Head(envs)] # ABSENT THEN e[Head(envs)]
    ELSE LookupFirst(Tail(envs), e)

\* Variant of MissingDiag with the two severities exchanged.
MissingDiag_SeveritiesSwapped(field, p) ==
    CASE field.missing = "error" ->
            NewAttributeWarningDiagnostic(p \o <<field.name>>, "Missing value")
      [] field.missing = "warn" ->
            NewAttributeErrorDiagnostic(p \o <<field.name>>, "Missing value")
      [] OTHER -> NoDiag

\* The missing-tag switch at the end of parseField.
MissingDiag(field, p) ==
    CASE field.missing = "error" ->
            NewAttributeErrorDiagnostic(p \o <<field.name>>, "Missing value")
      [] field.missing = "warn" ->
            NewAttributeWarningDiagnostic(p \o <<field.name>>, "Missing value")
      [] OTHER -> NoDiag

\* Variant of parseField that treats an empty configured string as unset.
parseField_EmptyIsUnset(in, field, e, p) ==
    IF in \notin {NULL, ""}
    THEN [val |-> ValueString(in), diag |-> NoDiag]
    ELSE IF LookupFirst(field.env, e) # ABSENT
         THEN [val |-> LookupFirst(field.env, e), diag |-> NoDiag]
         ELSE [val |-> "", diag |-> MissingDiag(field, p)]

\* parseField(in, field, out, p): out starts as "" (new(P)); the result is
\* the value left in out and the returned diagnostic.
parseField(in, field, e, p) ==
    IF in # NULL
    THEN [val |-> ValueString(in), diag |-> NoDiag]
    ELSE IF LookupFirst(field.env, e) # ABSENT
         THEN [val |-> LookupFirst(field.env, e), diag |-> NoDiag]
         ELSE [val |-> "", diag |-> MissingDiag(field, p)]

(***************************************************************************)
(* parseObject                                                             *)
(***************************************************************************)

\* A types.Object: state is "null", "unknown" or "known"; attrs gives the
\* types.String of every attribute of a known object.
NullObject == [state |-> "null", attrs |-> <<>>]
UnknownObject == [state |-> "unknown", attrs |-> <<>>]
KnownObject(attrs) == [state |-> "known", attrs |-> attrs]

\* var model M: every types.String field is null until in.As fills it.
ZeroModel(fields) == [n \in FieldNames(fields) |-> NULL]

\* new(P): every string field is "".
NewParsed(fields) == [n \in FieldNames(fields) |-> ""]

\* in.As(ctx, &model, ...): the schema's attributes are the struct's fields,
\* so the conversion copies them and reports nothing.
ObjectAs(in) == [model |-> in.attrs, diags |-> <<>>]

\* A *P: nil, or a pointer to a parsed struct.
NilProps == [nil |-> TRUE, v |-> <<>>]

\* diags.Append(parseField(...)) with out the field f of parsed.
StoreField(acc, f, r) ==
    [props |-> [acc.props EXCEPT ![f.name] = r.val],
     diags |-> Append1(acc.diags, r.diag)]

RECURSIVE ParseFields(_, _, _, _, _, _)
\* The loop over t.NumField() in parseObject, from field k on.
ParseFields(fields, k, model, acc, p, e) ==
    IF k > Len(fields) THEN acc
    ELSE ParseFields(fields, k + 1, model,
                     StoreField(acc, fields[k],
                                parseField(model[fields[k].name], fields[k], e, p)),
                     p, e)

\* return parsed
ReturnParsed(r) == [props |-> [nil |-> FALSE, v |-> r.props], diags |-> r.diags]

\* parseObject from the reflection over model on.
ParseModel(fields, model, diags, p, e) ==
    ReturnParsed(ParseFields(fields, 1, model,
                             [props |-> NewParsed(fields), diags |-> diags], p, e))

\* parseObject on an object that is neither null nor unknown, diags1 being
\* diags with what in.As reported.
ParseKnown(fields, model, diags1, p, e) ==
    IF HasError(diags1)
    THEN [props |-> NilProps, diags |-> diags1]
    ELSE ParseModel(fields, model, diags1, p, e)

\* parseObject[M, P](ctx, in, diags, p): the pointer returned and diags after.
parseObject(fields, in, diags, p, e) ==
    IF in.state = "known"
    THEN ParseKnown(fields, ObjectAs(in).model, AppendAll(diags, ObjectAs(in).diags), p, e)
    ELSE ParseModel(fields, ZeroModel(fields), diags, p, e)

(***************************************************************************)
(* SDK and OS calls made by selectCredentials                              *)
(***************************************************************************)

\* An option the caller leaves out of the SDK options struct.
Unset == "<unset>"

\* Constructors that take the tenant id as a positional argument.
TenantArgTypes ==
    {"azure_pipelines_credential", "client_secret_credential", "client_certificate_credential"}

\* Result of the azidentity.New...Credential call made for list entry i:
\* "ok" or "err".  The SDK rejects an empty positional tenant id; otherwise
\* the outcome is the run's w.ctor[i].
SdkNew(c, args, i, w) ==
    IF c \in TenantArgTypes /\ args["TenantID"] = "" THEN "err" ELSE w.ctor[i]

\* os.ReadFile followed by azidentity.ParseCertificates: "unreadable",
\* "malformed" or "ok".  No file has the empty path.
ReadCertificate(certPath, w) ==
    IF certPath = "" THEN "unreadable" ELSE w.cert

(***************************************************************************)
(* selectCredentials                                                       *)
(***************************************************************************)

\* path.Root("credentials").AtListIndex(i) for the i-th entry (Go counts
\* from 0, sequences here from 1).
CredentialsIndexPath(i) == <<"credentials", ToString(i - 1)>>

\* An azcore.TokenCredential built by the constructor call of list entry idx.
Credential(c, args, opts, i) == [type |-> c, args |-> args, options |-> opts, idx |-> i]

NoArgs == [n \in {} |-> ""]

\* State of one pass of the loop body: cred and err as left by the switch,
\* diags, and the constructor calls made so far.
Switched(cred, err, called, diags) ==
    [cred |-> cred, err |-> err, called |-> called, diags |-> diags]

\* cred, err = azidentity.New...(args): the call is recorded, and cred is
\* the built credential unless the constructor failed.
Construct(c, args, opts, i, w, diags) ==
    Switched(Credential(c, args, opts, i), SdkNew(c, args, i, w) = "err", TRUE, diags)

\* A switch arm that leaves cred and err nil.
Skip(c, i, diags) == Switched(Credential(c, NoArgs, Unset, i), FALSE, FALSE, diags)

\* case "managed_identity_credential", po being what parseObject returned.
NewManagedIdentity(c, i, clientOptions, w, po) ==
    IF ~po.props.nil
    THEN Construct(c, [ID |-> po.props.v["ClientID"]], clientOptions, i, w, po.diags)
    ELSE Construct(c, [ID |-> Unset], clientOptions, i, w, po.diags)

CaseManagedIdentity(c, i, data, clientOptions, diags, e, w) ==
    NewManagedIdentity(c, i, clientOptions, w,
        parseObject(MIcFields, data.ManagedIdentityCredential, diags, <<c>>, e))

\* case "workload_identity_credential", po being what parseObject returned.
NewWorkloadIdentity(c, i, clientOptions, w, po) ==
    IF ~po.props.nil
    THEN Construct(c, [ClientID |-> po.props.v["ClientID"],
                       TenantID |-> po.props.v["TenantID"]], clientOptions, i, w, po.diags)
    ELSE Construct(c, [ClientID |-> Unset, TenantID |-> Unset], clientOptions, i, w, po.diags)

CaseWorkloadIdentity(c, i, data, clientOptions, diags, e, w) ==
    NewWorkloadIdentity(c, i, clientOptions, w,
        parseObject(WIcFields, data.WorkloadIdentityCredential, diags, <<c>>, e))

\* case "azure_pipelines_credential", po being what parseObject returned.
NewAzurePipelines(c, i, clientOptions, w, po) ==
    LET clientID == IF ~po.props.nil THEN po.props.v["ClientID"] ELSE ""
        tenantID == IF ~po.props.nil THEN po.props.v["TenantID"] ELSE ""
        serviceConnectionID == IF ~po.props.nil THEN po.props.v["ServiceConnectionID"] ELSE ""
        systemAccessToken == IF ~po.props.nil THEN po.props.v["ServiceConnectionID"] ELSE ""
    IN Construct(c, [TenantID |-> tenantID, ClientID |-> clientID,
                     ServiceConnectionID |-> serviceConnectionID,
                     SystemAccessToken |-> systemAccessToken], clientOptions, i, w, po.diags)

CaseAzurePipelines(c, i, data, clientOptions, diags, e, w) ==
    NewAzurePipelines(c, i, clientOptions, w,
        parseObject(APcFields, data.AzurePipelinesCredential, diags, <<c>>, e))

\* case "client_secret_credential", po being what parseObject returned.
NewClientSecret(c, i, clientOptions, w, po) ==
    IF ~po.props.nil
    THEN Construct(c, [TenantID |-> po.props.v["TenantID"],
                       ClientID |-> po.props.v["ClientID"],
                       ClientSecret |-> po.props.v["ClientSecret"]], clientOptions, i, w, po.diags)
    ELSE Skip(c, i, Append1(po.diags,
                 NewAttributeErrorDiagnostic(<<c>>, "Missing configuration")))

CaseClientSecret(c, i, data, clientOptions, diags, e, w) ==
    NewClientSecret(c, i, clientOptions, w,
        parseObject(CScFields, data.ClientSecretCredential, diags, <<c>>, e))

\* A certificate case that hands a file it could not parse to the constructor.
NewClientCertificate_IgnoresParseError(c, i, clientOptions, w, po, file) ==
    CASE file = "unreadable" ->
            Skip(c, i, Append1(po.diags,
                NewAttributeErrorDiagnostic(<<c>>, "Failed to read certificate file")))
      [] OTHER ->
            Construct(c, [TenantID |-> po.props.v["TenantID"],
                          ClientID |-> po.props.v["ClientID"]], clientOptions, i, w, po.diags)

\* The arm of client_certificate_credential once props is not nil, file
\* being the outcome of reading and parsing the certificate.
NewClientCertificate(c, i, clientOptions, w, po, file) ==
    CASE file = "unreadable" ->
            Skip(c, i, Append1(po.diags,
                NewAttributeErrorDiagnostic(<<c>>, "Failed to read certificate file")))
      [] file = "malformed" ->
            Skip(c, i, Append1(po.diags,
                NewAttributeErrorDiagnostic(<<c>>, "Failed to parse certificate file")))
      [] OTHER ->
            Construct(c, [TenantID |-> po.props.v["TenantID"],
                          ClientID |-> po.props.v["ClientID"]], clientOptions, i, w, po.diags)

\* case "client_certificate_credential", po being what parseObject returned.
ReadAndNewClientCertificate(c, i, clientOptions, w, po) ==
    IF ~po.props.nil
    THEN NewClientCertificate(c, i, clientOptions, w, po,
                              ReadCertificate(po.props.v["CertificatePath"], w))
    ELSE Skip(c, i, Append1(po.diags,
                 NewAttributeErrorDiagnostic(<<"client_certificate_credential">>,
                                             "Missing configuration")))

CaseClientCertificate(c, i, data, clientOptions, diags, e, w) ==
    ReadAndNewClientCertificate(c, i, clientOptions, w,
        parseObject(CCcFields, data.ClientCertificateCredential, diags, <<c>>, e))

\* A default arm that passes over the name without a diagnostic.
CaseDefault_Silent(c, i, diags) == Skip(c, i, diags)

\* The default arm: a name that is none of the seven.
CaseDefault(c, i, diags) ==
    Skip(c, i, Append1(diags,
        NewAttributeErrorDiagnostic(CredentialsIndexPath(i), "Invalid Credential type")))

\* The switch on the credential name.
SwitchCredential(c, i, data, clientOptions, diags, e, w) ==
    CASE c = "environment_credential" -> Construct(c, NoArgs, clientOptions, i, w, diags)
      [] c = "managed_identity_credential" -> CaseManagedIdentity(c, i, data, clientOptions, diags, e, w)
      [] c = "azure_cli_credential" -> Construct(c, NoArgs, Unset, i, w, diags)
      [] c = "workload_identity_credential" -> CaseWorkloadIdentity(c, i, data, clientOptions, diags, e, w)
      [] c = "azure_pipelines_credential" -> CaseAzurePipelines(c, i, data, clientOptions, diags, e, w)
      [] c = "client_secret_credential" -> CaseClientSecret(c, i, data, clientOptions, diags, e, w)
      [] c = "client_certificate_credential" -> CaseClientCertificate(c, i, data, clientOptions, diags, e, w)
      [] OTHER -> CaseDefault(c, i, diags)

\* Variant of SetupFailed that records the constructor's error as an error.
SetupFailed_AsError(diags, i) ==
    Append1(diags, NewAttributeErrorDiagnostic(CredentialsIndexPath(i),
                                               "Error setting up credential"))

\* if err != nil: the warning at the entry's list index.
SetupFailed(diags, i) ==
    Append1(diags, NewAttributeWarningDiagnostic(CredentialsIndexPath(i),
                                                 "Error setting up credential"))

\* Variant of AppendCredential that puts the new credential first.
AppendCredential_Prepend(out, cred) == <<cred>> \o out

\* out = append(out, cred)
AppendCredential(out, cred) == Append(out, cred)

\* The end of the loop body, s being cred, err and diags after the switch.
AfterSwitch(acc, i, s) ==
    [out |-> IF ~s.err /\ s.called THEN AppendCredential(acc.out, s.cred) ELSE acc.out,
     diags |-> IF s.err THEN SetupFailed(s.diags, i) ELSE s.diags,
     calls |-> IF s.called THEN Append(acc.calls, s.cred) ELSE acc.calls]

\* One iteration of the loop of selectCredentials on entry i.
SelectStep(acc, i, in, data, clientOptions, e, w) ==
    AfterSwitch(acc, i,
        SwitchCredential(ValueString(in[i]), i, data, clientOptions, acc.diags, e, w))

RECURSIVE SelectLoop(_, _, _, _, _, _, _)
\* The loop of selectCredentials from entry i on.
SelectLoop(acc, i, in, data, clientOptions, e, w) ==
    IF i > Len(in) THEN acc
    ELSE SelectLoop(SelectStep(acc, i, in, data, clientOptions, e, w), i + 1, in, data, clientOptions, e, w)

\* selectCredentials(ctx, in, data, clientOptions): out, diags, and the SDK
\* constructor calls it made.
selectCredentials(in, data, clientOptions, e, w) ==
    SelectLoop([out |-> <<>>, diags |-> <<>>, calls |-> <<>>], 1, in, data, clientOptions, e, w)

(***************************************************************************)
(* selectCloud, setupCredentialChain                                       *)
(***************************************************************************)

\* Variant of selectCloud that reports an unrecognized value as an error.
selectCloud_UnrecognizedIsError(c) ==
    CASE c = "AzureChina" -> [cloud |-> "AzureChina", diag |-> NoDiag]
      [] c = "AzureGovernment" -> [cloud |-> "AzureGovernment", diag |-> NoDiag]
      [] c \in {"", "AzurePublic"} -> [cloud |-> "AzurePublic", diag |-> NoDiag]
      [] OTHER -> [cloud |-> "AzurePublic",
                   diag |-> NewAttributeErrorDiagnostic(<<"cloud">>, "Invalid cloud value")]

\* Variant of selectCloud without the empty string among the public names.
selectCloud_EmptyUnrecognized(c) ==
    CASE c = "AzureChina" -> [cloud |-> "AzureChina", diag |-> NoDiag]
      [] c = "AzureGovernment" -> [cloud |-> "AzureGovernment", diag |-> NoDiag]
      [] c = "AzurePublic" -> [cloud |-> "AzurePublic", diag |-> NoDiag]
      [] OTHER -> [cloud |-> "AzurePublic",
                   diag |-> NewAttributeWarningDiagnostic(<<"cloud">>, "Invalid cloud value")]

\* selectCloud(c): the cloud configuration and the diagnostic (or nil).
selectCloud(c) ==
    CASE c = "AzureChina" -> [cloud |-> "AzureChina", diag |-> NoDiag]
      [] c = "AzureGovernment" -> [cloud |-> "AzureGovernment", diag |-> NoDiag]
      [] c \in {"", "AzurePublic"} -> [cloud |-> "AzurePublic", diag |-> NoDiag]
      [] OTHER -> [cloud |-> "AzurePublic",
                   diag |-> NewAttributeWarningDiagnostic(<<"cloud">>, "Invalid cloud value")]

\* A *azidentity.ChainedTokenCredential: nil, or a chain over its sources.
NilChain == [nil |-> TRUE, sources |-> <<>>]

\* azidentity.NewChainedTokenCredential(sources, nil): an empty list of
\* sources is an error and yields no chain.
NewChainedTokenCredential(sources) ==
    IF Len(sources) = 0
    THEN [cred |-> NilChain, err |-> TRUE]
    ELSE [cred |-> [nil |-> FALSE, sources |-> sources], err |-> FALSE]

\* The end of setupCredentialChain: ch is what NewChainedTokenCredential
\* returned, diags the diagnostics before it, calls the constructor calls.
ReturnChain(ch, diags, calls) ==
    [cred |-> ch.cred,
     diags |-> IF ch.err
               THEN Append1(diags, NewAttributeErrorDiagnostic(<<>>,
                                       "Failed setting up credential chain"))
               ELSE diags,
     calls |-> calls]

\* setupCredentialChain after selectCredentials returned sel.
ChainSelected(diags0, sel) ==
    ReturnChain(NewChainedTokenCredential(sel.out), AppendAll(diags0, sel.diags), sel.calls)

\* setupCredentialChain after selectCloud returned cl.
SetupWithCloud(cl, d, e, w) ==
    ChainSelected(Append1(<<>>, cl.diag), selectCredentials(d.Credentials, d, cl.cloud, e, w))

\* setupCredentialChain(ctx, data): the chain, the diagnostics, and the SDK
\* constructor calls made on the way.
setupCredentialChain(d, e, w) == SetupWithCloud(selectCloud(ValueString(d.Cloud)), d, e, w)

(***************************************************************************)
(* State                                                                   *)
(***************************************************************************)

VARIABLES
    data,       \* AzIdentityProviderModel: the provider configuration
    env,        \* the process environment: name -> value or ABSENT
    world,      \* outcomes of the SDK constructors and of the certificate file
    provider,   \* the provider server: Configure's response and what it published
    resources,  \* the TokenEphemeralResource instances
    crashed,    \* the plugin process died of a runtime panic
    pf,         \* one application of parseField: input, field, result
    validation  \* validation of the credentials attribute: diagnostics, validators run

vars == <<data, env, world, provider, resources, crashed, pf, validation>>

\* The TokenEphemeralResource instances the host has created.
Resources == {"r1", "r2"}

\* No Open has run on the instance yet.
\* Before any Open: no request read, no options built, GetToken not called.
NoRequest == [Scopes |-> <<>>, Claims |-> NULL, EnableCAE |-> FALSE]

NoOptions == [Claims |-> "", Scopes |-> <<>>, EnableCAE |-> FALSE]

NotAsked == [kind |-> "none", token |-> <<>>, by |-> 0]

NoOpen ==
    [status |-> "none", diags |-> <<>>, resultSet |-> FALSE, token |-> <<>>, by |-> 0,
     req |-> NoRequest, asked |-> NoOptions, got |-> NotAsked]

\* &TokenEphemeralResource{}
\* The type of the provider data the instance was last given and the
\* diagnostics of that Configure response; a new instance was given none.
NotConfigured == [data |-> "nil", diags |-> <<>>]

NewTokenEphemeralResource ==
    [credential |-> NilChain, configure |-> NotConfigured, open |-> NoOpen]

\* The provider server before ConfigureProvider.  cred and calls are what
\* setupCredentialChain returned to Configure and which constructors it called.
NewProvider ==
    [configured |-> FALSE, diags |-> <<>>, cred |-> NilChain,
     EphemeralResourceData |-> NilChain, calls |-> <<>>]

\* The credentials attribute not validated yet.
NotValidated == [done |-> FALSE, diags |-> <<>>, ran |-> <<>>]

NoParse == [in |-> NULL, field |-> MIcFields[1], done |-> FALSE, out |-> [val |-> "", diag |-> NoDiag]]

(***************************************************************************)
(* Handlers                                                                *)
(***************************************************************************)

\* A Configure that withholds the chain on any diagnostic, warnings included.
ConfigureResponse_AnyDiagnosticBlocks(r) ==
    [configured |-> TRUE,
     diags |-> r.diags,
     cred |-> r.cred,
     EphemeralResourceData |-> IF Len(r.diags) > 0 THEN NilChain ELSE r.cred,
     calls |-> r.calls]

\* What Configure leaves behind, r being what setupCredentialChain returned:
\* the chain is published unless the diagnostics hold an error.
ConfigureResponse(r) ==
    [configured |-> TRUE,
     diags |-> r.diags,
     cred |-> r.cred,
     EphemeralResourceData |-> IF HasError(r.diags) THEN NilChain ELSE r.cred,
     calls |-> r.calls]

\* AzIdentityProvider.Configure
ProviderConfigure ==
    /\ ~crashed
    /\ ~provider.configured
    /\ provider' = ConfigureResponse(setupCredentialChain(data, env, world))
    /\ UNCHANGED <<data, env, world, resources, crashed, pf, validation>>

\* req.ProviderData, an interface value: nil, the chain the provider
\* published, or a value of a type Configure does not expect.
NoProviderData == [type |-> "nil", value |-> NilChain]

OtherProviderData == [type |-> "string", value |-> NilChain]

\* What the host passes once the provider has published ch; a provider that
\* published nothing leaves the interface nil.
ProviderDataOf(ch) ==
    IF ch.nil THEN NoProviderData
    ELSE [type |-> "*azidentity.ChainedTokenCredential", value |-> ch]

\* A Configure that stores whatever it is given, without the type assertion.
Configure_StoresAnyData(d, ProviderData) ==
    IF ProviderData.type = "nil"
    THEN [d EXCEPT !.configure = [data |-> "nil", diags |-> <<>>]]
    ELSE [d EXCEPT !.credential = ProviderData.value,
                   !.configure = [data |-> ProviderData.type, diags |-> <<>>]]

\* TokenEphemeralResource.Configure on the instance d: the instance after
\* the call, configure holding the type of the data it was given and the
\* diagnostics of its response.
Configure(d, ProviderData) ==
    IF ProviderData.type = "nil"
    THEN [d EXCEPT !.configure = [data |-> "nil", diags |-> <<>>]]
    ELSE IF ProviderData.type # "*azidentity.ChainedTokenCredential"
    THEN [d EXCEPT !.configure =
             [data |-> ProviderData.type,
              diags |-> <<NewAttributeErrorDiagnostic(<<>>,
                             "Unexpected Ephemeral Resource Configure Type")>>]]
    ELSE [d EXCEPT !.credential = ProviderData.value,
                   !.configure = [data |-> ProviderData.type, diags |-> <<>>]]

\* The host calls Configure on instance r with ProviderData.
ResourceConfigureWith(r, ProviderData) ==
    /\ ~crashed
    /\ resources' = [resources EXCEPT ![r] = Configure(@, ProviderData)]
    /\ UNCHANGED <<data, env, world, provider, crashed, pf, validation>>

\* TokenEphemeralResource.Configure, called by the host with the data the
\* provider published (nil until then).
ResourceConfigure(r) ==
    ResourceConfigureWith(r, ProviderDataOf(provider.EphemeralResourceData))

\* The ephemeral resource configurations the host sends to Open.
Requests ==
    {[Scopes |-> <<"scope1">>, Claims |-> "claims1", EnableCAE |-> TRUE],
     [Scopes |-> <<NULL>>, Claims |-> NULL, EnableCAE |-> FALSE]}

\* data.Scopes.ElementsAs(ctx, &scopes, false): a null element cannot become
\* a Go string.
ScopesAsError(scopes) == \E k \in 1..Len(scopes) : scopes[k] \in {NULL, UNKNOWN}

\* The same options without the claims.
TokenRequestOptions_NoClaims(req) ==
    [Claims |-> "", Scopes |-> req.Scopes, EnableCAE |-> req.EnableCAE]

\* policy.TokenRequestOptions built by Open.
TokenRequestOptions(req) ==
    [Claims |-> ValueString(req.Claims), Scopes |-> req.Scopes, EnableCAE |-> req.EnableCAE]

\* r.credential.GetToken(ctx, opts) on a chain that is not nil.  The method
\* is the SDK's; what it answers is the outside world's choice k: an error
\* (k = 0), or the token that source k of the chain issued for opts.
GetToken(chain, opts, k) ==
    IF k = 0
    THEN [kind |-> "err", token |-> <<>>, by |-> 0]
    ELSE [kind |-> "token", token |-> <<chain.sources[k].type, opts>>, by |-> k]

\* Open returned after Scopes.ElementsAs reported an error.
ScopesFailed(req) ==
    [status |-> "error",
     diags |-> <<NewAttributeErrorDiagnostic(<<"scopes">>, "Value Conversion Error")>>,
     resultSet |-> FALSE, token |-> <<>>, by |-> 0,
     req |-> req, asked |-> NoOptions, got |-> NotAsked]

\* Open called GetToken through a nil chain reference.
NilDereference(req, opts) ==
    [status |-> "panic", diags |-> <<>>, resultSet |-> FALSE, token |-> <<>>, by |-> 0,
     req |-> req, asked |-> opts, got |-> NotAsked]

\* The end of Open, got being what GetToken returned for opts: an error is
\* reported and nothing is written, a token is written to the result.
TokenResult(req, opts, got) ==
    IF got.kind = "err"
    THEN [status |-> "error",
          diags |-> <<NewAttributeErrorDiagnostic(<<>>, "Unable to get token")>>,
          resultSet |-> FALSE, token |-> <<>>, by |-> 0,
          req |-> req, asked |-> opts, got |-> got]
    ELSE [status |-> "ok", diags |-> <<>>, resultSet |-> TRUE, token |-> got.token,
          by |-> got.by, req |-> req, asked |-> opts, got |-> got]

\* An Open that also forgets the chain of its resource.
OpenUpdate_DropsChain(res, rec) == [res EXCEPT !.open = rec, !.credential = NilChain]

\* What an Open leaves of the resource: its response, and the fields of
\* the receiver as they were (Open assigns none of them).
OpenUpdate(res, rec) == [res EXCEPT !.open = rec]

\* TokenEphemeralResource.Open.  On a nil chain the method call
\* dereferences nil and the process panics.
Open(r, req) ==
    /\ ~crashed
    /\ IF ScopesAsError(req.Scopes)
       THEN /\ resources' = [resources EXCEPT ![r] = OpenUpdate(@, ScopesFailed(req))]
            /\ UNCHANGED crashed
       ELSE IF resources[r].credential.nil
       THEN /\ resources' = [resources EXCEPT ![r] =
                    OpenUpdate(@, NilDereference(req, TokenRequestOptions(req)))]
            /\ crashed' = TRUE
       ELSE /\ \E k \in 0..Len(resources[r].credential.sources) :
                    resources' = [resources EXCEPT ![r] =
                        OpenUpdate(@, TokenResult(req, TokenRequestOptions(req),
                            GetToken(resources[r].credential, TokenRequestOptions(req), k)))]
            /\ UNCHANGED crashed
    /\ UNCHANGED <<data, env, world, provider, pf, validation>>

(***************************************************************************)
(* Initial states and specifications                                       *)
(***************************************************************************)

\* The seven names of the switch, and one the switch does not know.
CredentialTypes ==
    {"environment_credential", "managed_identity_credential", "azure_cli_credential",
     "workload_identity_credential", "azure_pipelines_credential",
     "client_secret_credential", "client_certificate_credential"}

CredentialNames == CredentialTypes \cup {"github_credential"}

CredentialLists(maxLen) == UNION {[1..n -> CredentialNames] : n \in 0..maxLen}

Requested(list, c) == \E k \in 1..Len(list) : list[k] = c

CloudValues == {NULL, "", "AzurePublic", "AzureChina", "AzureGovernment", "AzureMars"}

NoEnv == [n \in EnvNames |-> ABSENT]

\* Every variable set, each to a value of its own.
FullEnv == [n \in EnvNames |-> "env:" \o n]

\* A block is absent, not yet known, or set; it is absent unless its
\* credential is requested, since no other block is read.
Blocks(list, c, known, others) ==
    IF Requested(list, c) THEN {NullObject, known} \cup others ELSE {NullObject}

APcKnown ==
    KnownObject([TenantID |-> "tenant1", ClientID |-> "client1",
                 ServiceConnectionID |-> "connection1", SystemAccessToken |-> "token1"])

CScKnown ==
    KnownObject([TenantID |-> "tenant1", ClientID |-> "client1", ClientSecret |-> "secret1"])

CCcKnown ==
    KnownObject([TenantID |-> "tenant1", ClientID |-> "client1",
                 CertificatePath |-> "./privkey_name.pem", CertificatePassword |-> NULL])

MIcKnown == KnownObject([ClientID |-> "client1"])

WIcKnown == KnownObject([TenantID |-> "tenant1", ClientID |-> "client1"])

InitHost ==
    /\ provider = NewProvider
    /\ resources = [r \in Resources |-> NewTokenEphemeralResource]
    /\ crashed = FALSE
    /\ pf = NoParse
    /\ validation = NotValidated

\* A provider configuration and a run of the outside world: a credentials
\* list of at most maxLen names and a cloud of clouds (or, with a list of
\* at most one name, of shortClouds); the blocks of the
\* requested credentials absent, set, or one of others; an environment of
\* envs; any outcome of each SDK constructor and of the certificate file.
InitConfig(maxLen, clouds, shortClouds, others, envs) ==
    \E list \in CredentialLists(maxLen) :
       /\ \E cl \in clouds \cup (IF Len(list) <= 1 THEN shortClouds ELSE {}),
             ap \in Blocks(list, "azure_pipelines_credential", APcKnown, others),
             cs \in Blocks(list, "client_secret_credential", CScKnown, others),
             cc \in Blocks(list, "client_certificate_credential", CCcKnown, others),
             mi \in Blocks(list, "managed_identity_credential", MIcKnown, others),
             wi \in Blocks(list, "workload_identity_credential", WIcKnown, others) :
            data = [Cloud |-> cl, Credentials |-> list,
                    AzurePipelinesCredential |-> ap, ClientSecretCredential |-> cs,
                    ClientCertificateCredential |-> cc, ManagedIdentityCredential |-> mi,
                    WorkloadIdentityCredential |-> wi]
       /\ env \in (IF Requested(list, "azure_pipelines_credential")
                   THEN envs ELSE {NoEnv})
       /\ \E ctor \in [1..Len(list) -> {"ok", "err"}],
             cert \in (IF Requested(list, "client_certificate_credential")
                       THEN {"unreadable", "malformed", "ok"} ELSE {"ok"}) :
            world = [ctor |-> ctor, cert |-> cert]

\* The host lifecycle: provider Configure, resource Configure and Open in
\* any order, on any configuration of at most MaxCreds credentials.
Init == InitConfig(MaxCreds, {"AzurePublic"}, {}, {}, {NoEnv}) /\ InitHost

Next ==
    \/ ProviderConfigure
    \/ \E r \in Resources : ResourceConfigure(r)
    \/ \E r \in Resources, req \in Requests : Open(r, req)

Spec == Init /\ [][Next]_vars

\* Provider configuration alone, on any configuration of at most MaxCreds
\* credentials: every cloud value with the lists of at most one name, a
\* recognized and an unrecognized one with the longer lists.
InitConfigure ==
    InitConfig(MaxCreds, {"AzureChina", "AzureMars"}, CloudValues,
               {UnknownObject}, {NoEnv, FullEnv}) /\ InitHost

NextConfigure == ProviderConfigure

SpecConfigure == InitConfigure /\ [][NextConfigure]_vars

\* Resource Configure with any provider data: the provider is configured
\* at some point and the host passes each instance, in any order, a nil
\* interface, the chain the provider published, or a value of another type.
ProviderDatas ==
    {NoProviderData, OtherProviderData, ProviderDataOf(provider.EphemeralResourceData)}

NextResource ==
    \/ ProviderConfigure
    \/ \E r \in Resources, pd \in ProviderDatas : ResourceConfigureWith(r, pd)

SpecResource == Init /\ [][NextResource]_vars

(***************************************************************************)
(* parseField on its own                                                   *)
(***************************************************************************)

\* A field with the missing:"error" tag, which parseField also handles.
ErrorTagField == [name |-> "Required", env |-> <<"ARM_TENANT_ID">>, missing |-> "error"]

RECURSIVE SeqRange(_)
SeqRange(q) == IF q = <<>> THEN {} ELSE {Head(q)} \cup SeqRange(Tail(q))

\* The fields parseField is applied to: those of the five structs and one
\* tagged missing:"error".
ParseFieldCases ==
    SeqRange(APcFields) \cup SeqRange(CScFields) \cup SeqRange(CCcFields)
        \cup SeqRange(MIcFields) \cup SeqRange(WIcFields) \cup {ErrorTagField}

FieldInputs == {NULL, UNKNOWN, "", "a", "b"}

EnvValues == {ABSENT, "", "x", "y"}

\* Any field, any types.String for it, and any environment for the names
\* of its env tag.
InitParse ==
    /\ \E f \in ParseFieldCases, in \in FieldInputs :
          pf = [in |-> in, field |-> f, done |-> FALSE, out |-> [val |-> "", diag |-> NoDiag]]
    /\ env \in [EnvNames -> EnvValues]
    /\ \A n \in EnvNames : n \notin SeqRange(pf.field.env) => env[n] = ABSENT
    /\ data = [Cloud |-> NULL, Credentials |-> <<>>,
               AzurePipelinesCredential |-> NullObject, ClientSecretCredential |-> NullObject,
               ClientCertificateCredential |-> NullObject,
               ManagedIdentityCredential |-> NullObject,
               WorkloadIdentityCredential |-> NullObject]
    /\ world = [ctor |-> <<>>, cert |-> "ok"]
    /\ provider = NewProvider
    /\ resources = [r \in Resources |-> NewTokenEphemeralResource]
    /\ crashed = FALSE
    /\ validation = NotValidated

\* parseField(in, field, out, p) on the drawn input.
ParseFieldStep ==
    /\ ~pf.done
    /\ pf' = [pf EXCEPT !.done = TRUE,
                        !.out = parseField(pf.in, pf.field, env, <<"block">>)]
    /\ UNCHANGED <<data, env, world, provider, resources, crashed, validation>>

NextParse == ParseFieldStep

SpecParse == InitParse /\ [][NextParse]_vars

(***************************************************************************)
(* Validation of the credentials attribute                                 *)
(***************************************************************************)

\* The map given to ValueBased in the schema: each key with the root
\* attribute its AlsoRequires validator names.
ElementValidators ==
    [k \in {"client_secret_credential", "client_certificate_credential"} |-> k]

\* The value of the configuration at a root path of a parameter block.
BlockAt(d, root) ==
    CASE root = "azure_pipelines_credential" -> d.AzurePipelinesCredential
      [] root = "client_secret_credential" -> d.ClientSecretCredential
      [] root = "client_certificate_credential" -> d.ClientCertificateCredential
      [] root = "managed_identity_credential" -> d.ManagedIdentityCredential
      [] root = "workload_identity_credential" -> d.WorkloadIdentityCredential

\* stringvalidator.AlsoRequires(path.MatchRoot(root)) on a value at path p:
\* the framework's validator reports an error when the value is not null
\* and the attribute at root is null, and waits while root is unknown.
AlsoRequires(root, value, p, d) ==
    IF value # NULL /\ BlockAt(d, root).state = "null"
    THEN <<NewAttributeErrorDiagnostic(p, "Invalid Attribute Combination")>>
    ELSE <<>>

NothingValidated == [diags |-> <<>>, ran |-> <<>>]

\* A lookup that ignores the element's value and always finds the first key.
ValidateString_AnyValue(validators, value, p, d) ==
    IF value \in {UNKNOWN, NULL}
    THEN NothingValidated
    ELSE [diags |-> AlsoRequires(validators["client_secret_credential"], value, p, d),
          ran |-> <<[path |-> p, key |-> "client_secret_credential"]>>]

\* ValueBasedValidator.ValidateString on the value at path p: the
\* diagnostics it adds and the element validators it ran.
ValidateString(validators, value, p, d) ==
    IF value \in {UNKNOWN, NULL}
    THEN NothingValidated
    ELSE IF value \in DOMAIN validators
         THEN [diags |-> AlsoRequires(validators[value], value, p, d),
               ran |-> <<[path |-> p, key |-> value]>>]
         ELSE NothingValidated

\* stringvalidator.OneOf(the seven names) on a value at path p.
OneOf(value, p) ==
    IF value \in {UNKNOWN, NULL}
           \/ value \in {"environment_credential", "azure_pipelines_credential",
                         "workload_identity_credential", "managed_identity_credential",
                         "azure_cli_credential", "client_secret_credential",
                         "client_certificate_credential"}
    THEN <<>>
    ELSE <<NewAttributeErrorDiagnostic(p, "Invalid Attribute Value Match")>>

\* listvalidator.UniqueValues() on the list: an error on the list for two
\* equal elements that are both known.
UniqueValues(list) ==
    IF \E i, j \in 1..Len(list) : i < j /\ list[i] = list[j] /\ list[i] # UNKNOWN
    THEN <<NewAttributeErrorDiagnostic(<<"credentials">>, "Duplicate List Value")>>
    ELSE <<>>

\* One element of ValueStringsAre: OneOf, then ValueBased, vb being what
\* ValidateString returned for the element.
ElementValidated(acc, value, p, vb) ==
    [diags |-> AppendAll(AppendAll(acc.diags, OneOf(value, p)), vb.diags),
     ran |-> acc.ran \o vb.ran]

\* listvalidator.ValueStringsAre(OneOf(...), ValueBased(...)): both
\* validators on every element, in order.
RECURSIVE ValueStringsAre(_, _, _, _)
ValueStringsAre(list, i, d, acc) ==
    IF i > Len(list)
    THEN acc
    ELSE ValueStringsAre(list, i + 1, d,
             ElementValidated(acc, list[i], CredentialsIndexPath(i),
                 ValidateString(ElementValidators, list[i], CredentialsIndexPath(i), d)))

\* The validators of the credentials attribute, in the schema's order.
ValidateCredentials(d) ==
    ValueStringsAre(d.Credentials, 1, d,
                    [diags |-> UniqueValues(d.Credentials), ran |-> <<>>])

Validated(v) == [done |-> TRUE, diags |-> v.diags, ran |-> v.ran]

\* The host validates the credentials attribute of a provider configuration.
ValidateConfig ==
    /\ ~validation.done
    /\ validation' = Validated(ValidateCredentials(data))
    /\ UNCHANGED <<data, env, world, provider, resources, crashed, pf>>

\* The elements a credentials list can hold at validation: any name, a
\* null and an unknown value.
ListElements == CredentialNames \cup {NULL, UNKNOWN}

\* Any list of at most MaxCreds elements, the two blocks the validators
\* look at absent, unknown or set; the other blocks are not read.
InitValidate ==
    /\ \E list \in UNION {[1..n -> ListElements] : n \in 0..MaxCreds},
          cs \in {NullObject, UnknownObject, CScKnown},
          cc \in {NullObject, UnknownObject, CCcKnown} :
         data = [Cloud |-> NULL, Credentials |-> list,
                 AzurePipelinesCredential |-> NullObject, ClientSecretCredential |-> cs,
                 ClientCertificateCredential |-> cc,
                 ManagedIdentityCredential |-> NullObject,
                 WorkloadIdentityCredential |-> NullObject]
    /\ env = NoEnv
    /\ world = [ctor |-> <<>>, cert |-> "ok"]
    /\ provider = NewProvider
    /\ resources = [r \in Resources |-> NewTokenEphemeralResource]
    /\ crashed = FALSE
    /\ pf = NoParse
    /\ validation = NotValidated

NextValidate == ValidateConfig

SpecValidate == InitValidate /\ [][NextValidate]_vars

(***************************************************************************)
(* Properties                                                              *)
(***************************************************************************)

\* The sources of the chain setupCredentialChain returned to Configure.
Built == provider.cred.sources

BuiltAt(i) == \E k \in 1..Len(Built) : Built[k].idx = i

\* The constructor was called for list entry i and returned an error.
ConstructorFailedAt(i) ==
    \E k \in 1..Len(provider.calls) :
        /\ provider.calls[k].idx = i
        /\ SdkNew(provider.calls[k].type, provider.calls[k].args, i, world) = "err"

DiagsAt(p) == {k \in 1..Len(provider.diags) : provider.diags[k].path = p}

\* C1: the chain built by selectCredentials is a subsequence of the
\* requested list: every source was built for one list entry and has that
\* entry's name, and the sources stand in strictly increasing entry order
\* (so each entry appears at most once and none is unrequested).
C1_ChainIsSubsequence ==
    provider.configured =>
        /\ \A k \in 1..Len(Built) :
              /\ Built[k].idx \in 1..Len(data.Credentials)
              /\ Built[k].type = data.Credentials[Built[k].idx]
        /\ \A j, k \in 1..Len(Built) : j < k => Built[j].idx < Built[k].idx

\* Two entries were requested and both were built.
C1_Witness ==
    /\ provider.configured
    /\ Len(data.Credentials) = 2
    /\ Len(Built) = 2
    /\ Built[1].type # Built[2].type

\* A requested credential whose block is null.
MissingBlock(c) ==
    /\ Requested(data.Credentials, c)
    /\ \/ c = "client_secret_credential" /\ data.ClientSecretCredential.state = "null"
       \/ c = "client_certificate_credential" /\ data.ClientCertificateCredential.state = "null"

\* A warning recorded for credential c: at its attribute or at one of its
\* list indexes.
WarningFor(c) ==
    \E k \in 1..Len(provider.diags) :
        /\ provider.diags[k].sev = "warning"
        /\ \/ provider.diags[k].path = <<c>>
           \/ \E i \in 1..Len(data.Credentials) :
                 data.Credentials[i] = c /\ provider.diags[k].path = CredentialsIndexPath(i)

\* C2: a requested client_secret_credential or client_certificate_credential
\* whose block is null gets no chain entry, and a warning is recorded for it.
C2_MissingBlockOmittedWithWarning ==
    provider.configured =>
        \A c \in {"client_secret_credential", "client_certificate_credential"} :
            MissingBlock(c) =>
                /\ \A k \in 1..Len(Built) : Built[k].type # c
                /\ WarningFor(c)

\* C3: when no requested credential was built, an Open that ran ended with
\* an error diagnostic and without a result, and did not fault.
C3_NoCredentialOpenFails ==
    \A r \in Resources :
        (provider.configured /\ Len(Built) = 0 /\ resources[r].open.status # "none") =>
            /\ resources[r].open.status = "error"
            /\ HasError(resources[r].open.diags)
            /\ ~resources[r].open.resultSet

\* C4: a field set to a string, the empty one included, is parsed to that
\* string whatever the environment holds.
C4_ConfiguredStringWins ==
    (pf.done /\ pf.in \notin {NULL, UNKNOWN}) =>
        /\ pf.out.val = pf.in
        /\ pf.out.diag = NoDiag

\* The field is set to the empty string while a variable of its env tag has
\* another value.
C4_Witness ==
    /\ pf.done
    /\ pf.in = ""
    /\ \E k \in 1..Len(pf.field.env) : env[pf.field.env[k]] \notin {ABSENT, ""}
    /\ pf.out.val = ""

\* The value a field of the azure_pipelines_credential block resolves to:
\* the configured one, else the first present variable of its own env tag.
ResolvedAPc(k) ==
    LET f == APcFields[k]
        blk == data.AzurePipelinesCredential
        in == IF blk.state = "known" THEN blk.attrs[f.name] ELSE NULL
        present == {j \in 1..Len(f.env) : env[f.env[j]] # ABSENT}
    IN IF in # NULL THEN ValueString(in)
       ELSE IF present = {} THEN ""
       ELSE env[f.env[CHOOSE j \in present : \A m \in present : j <= m]]

\* C5: each of the four arguments of the azure_pipelines_credential
\* constructor is the value resolved for its own field.
C5_PipelinesArgumentsOwnField ==
    provider.configured =>
        \A k \in 1..Len(provider.calls) :
            provider.calls[k].type = "azure_pipelines_credential" =>
                \A n \in 1..Len(APcFields) :
                    provider.calls[k].args[APcFields[n].name] = ResolvedAPc(n)

UnrecognizedCloud ==
    ValueString(data.Cloud) \notin {"", "AzurePublic", "AzureChina", "AzureGovernment"}

\* Every constructor that is given client options is given the public cloud.
AllPublicCloud ==
    \A k \in 1..Len(provider.calls) :
        provider.calls[k].options \in {Unset, "AzurePublic"}

\* C7: for an unrecognized, non-empty cloud value the credentials are set up
\* for the public cloud and the diagnostics hold exactly one diagnostic at
\* the cloud attribute, a warning.
C7_UnrecognizedCloudOneWarning ==
    (provider.configured /\ UnrecognizedCloud) =>
        /\ AllPublicCloud
        /\ Cardinality(DiagsAt(<<"cloud">>)) = 1
        /\ \A k \in DiagsAt(<<"cloud">>) : provider.diags[k].sev = "warning"

\* An unrecognized cloud with a constructor that takes the client options.
C7_Witness ==
    /\ provider.configured
    /\ data.Cloud = "AzureMars"
    /\ \E k \in 1..Len(provider.calls) : provider.calls[k].options = "AzurePublic"

\* C8 as stated: an empty or unset cloud value gets a warning diagnostic at
\* the cloud attribute, as an unrecognized one does.
C8_EmptyCloudWarns ==
    (provider.configured /\ ValueString(data.Cloud) = "") =>
        \E k \in DiagsAt(<<"cloud">>) : provider.diags[k].sev = "warning"

\* C8 amended: an empty or unset cloud value selects the public cloud and
\* records no diagnostic at the cloud attribute.
C8_EmptyCloudSilentPublic ==
    (provider.configured /\ ValueString(data.Cloud) = "") =>
        /\ AllPublicCloud
        /\ DiagsAt(<<"cloud">>) = {}

\* The cloud is unset, or set to the empty string, and a constructor takes
\* the client options.
C8_Witness ==
    /\ provider.configured
    /\ data.Cloud \in {NULL, ""}
    /\ \E k \in 1..Len(provider.calls) : provider.calls[k].options = "AzurePublic"

\* Entry i is one whose arm of the switch calls the constructor whatever the
\* blocks hold.
AlwaysConstructed(i) ==
    data.Credentials[i] \in {"environment_credential", "azure_cli_credential"}

\* C9: an entry whose constructor failed has exactly one diagnostic at its
\* list index, a warning, and no chain entry; later entries are still
\* processed; and when every entry was either built or failed in its
\* constructor and one was built, there is a chain and no error diagnostic.
C9_ConstructorErrorIsWarning ==
    provider.configured =>
        /\ \A i \in 1..Len(data.Credentials) :
              ConstructorFailedAt(i) =>
                 /\ Cardinality(DiagsAt(CredentialsIndexPath(i))) = 1
                 /\ \A k \in DiagsAt(CredentialsIndexPath(i)) : provider.diags[k].sev = "warning"
                 /\ ~BuiltAt(i)
                 /\ \A j \in (i + 1)..Len(data.Credentials) :
                       (AlwaysConstructed(j) /\ world.ctor[j] = "ok") => BuiltAt(j)
        /\ ( /\ \E i \in 1..Len(data.Credentials) : ConstructorFailedAt(i)
             /\ \E i \in 1..Len(data.Credentials) : BuiltAt(i)
             /\ \A i \in 1..Len(data.Credentials) : BuiltAt(i) \/ ConstructorFailedAt(i) )
           => /\ ~HasError(provider.diags)
              /\ ~provider.EphemeralResourceData.nil
              /\ provider.EphemeralResourceData = provider.cred

\* The first entry's constructor failed and the second entry was built.
C9_Witness ==
    /\ provider.configured
    /\ Len(data.Credentials) = 2
    /\ ConstructorFailedAt(1)
    /\ BuiltAt(2)
    /\ ~provider.EphemeralResourceData.nil

\* C10: a non-null field is parsed to its configured value; a null field to
\* the value of the first present variable of its env tag, in tag order,
\* even when that value is empty; and to "" only when none is present.
C10_ParseFieldPrecedence ==
    pf.done =>
        LET envs == pf.field.env
        IN /\ pf.in # NULL => pf.out.val = ValueString(pf.in)
           /\ pf.in = NULL =>
                /\ \A k \in 1..Len(envs) :
                      ( /\ env[envs[k]] # ABSENT
                        /\ \A j \in 1..(k - 1) : env[envs[j]] = ABSENT )
                      => pf.out.val = env[envs[k]]
                /\ (\A k \in 1..Len(envs) : env[envs[k]] = ABSENT) => pf.out.val = ""

\* A null field whose first variable is present but empty and whose second
\* has a value.
C10_Witness ==
    /\ pf.done
    /\ pf.in = NULL
    /\ Len(pf.field.env) = 2
    /\ env[pf.field.env[1]] = ""
    /\ env[pf.field.env[2]] = "x"
    /\ pf.out.val = ""


\* The field of pf was resolved: from the configuration or from a variable
\* of its env tag.
Resolved ==
    \/ pf.in # NULL
    \/ \E k \in 1..Len(pf.field.env) : env[pf.field.env[k]] # ABSENT

\* C11: a resolved field gets no missing-value diagnostic; a field resolved
\* from neither configuration nor environment gets exactly the diagnostic
\* of its missing tag at its own path: a warning for "warn", an error for
\* "error", none without the tag.
C11_MissingPolicyOnlyWhenUnresolved ==
    pf.done =>
        /\ Resolved => pf.out.diag = NoDiag
        /\ ~Resolved =>
             /\ pf.field.missing = "warn" =>
                   pf.out.diag = [sev |-> "warning", path |-> <<"block", pf.field.name>>,
                                  summary |-> "Missing value"]
             /\ pf.field.missing = "error" =>
                   pf.out.diag = [sev |-> "error", path |-> <<"block", pf.field.name>>,
                                  summary |-> "Missing value"]
             /\ pf.field.missing \notin {"warn", "error"} => pf.out.diag = NoDiag

\* A null field tagged missing:"warn" with none of its variables set.
C11_Witness ==
    /\ pf.done
    /\ ~Resolved
    /\ pf.field.missing = "warn"
    /\ Len(pf.field.env) = 2
    /\ pf.out.diag.sev = "warning"


\* C12: an Open whose token request returned an error holds an error
\* diagnostic and wrote no result; an Open whose request succeeded wrote
\* exactly the token the chain returned, and the chain was asked for the
\* scopes, claims and CAE flag of that Open's own configuration.
C12_OpenErrorNoResultElseToken ==
    \A r \in Resources :
        /\ resources[r].open.got.kind = "err" =>
             /\ HasError(resources[r].open.diags)
             /\ ~resources[r].open.resultSet
             /\ resources[r].open.token = <<>>
        /\ resources[r].open.got.kind = "token" =>
             /\ resources[r].open.resultSet
             /\ ~HasError(resources[r].open.diags)
             /\ resources[r].open.token = resources[r].open.got.token
             /\ resources[r].open.got.token[2] = resources[r].open.asked
             /\ resources[r].open.asked.Scopes = resources[r].open.req.Scopes
             /\ resources[r].open.req.Claims # NULL =>
                   resources[r].open.asked.Claims = resources[r].open.req.Claims
             /\ resources[r].open.req.Claims = NULL => resources[r].open.asked.Claims = ""
             /\ resources[r].open.asked.EnableCAE = resources[r].open.req.EnableCAE

\* One resource was refused a token and the other was given the token of
\* the second source of its chain.
C12_Witness ==
    /\ resources["r1"].open.got.kind = "err"
    /\ resources["r2"].open.got.kind = "token"
    /\ resources["r2"].open.by = 2
    /\ resources["r2"].open.req.Claims = "claims1"


\* The warning diagnostics of Configure.
Warnings == {k \in 1..Len(provider.diags) : provider.diags[k].sev = "warning"}

\* C13: after provider Configure the chain is published to the ephemeral
\* resources exactly when the diagnostics hold no error: with an error
\* EphemeralResourceData stays unset, without one it is the chain that was
\* built, however many warnings there are.
C13_PublishedIffNoError ==
    provider.configured =>
        /\ HasError(provider.diags) => provider.EphemeralResourceData = NilChain
        /\ ~HasError(provider.diags) =>
             /\ ~provider.EphemeralResourceData.nil
             /\ provider.EphemeralResourceData = provider.cred
             /\ Len(provider.EphemeralResourceData.sources) > 0

\* Two warnings (an unrecognized cloud, a constructor that failed), no
\* error, and the chain published.
C13_Witness ==
    /\ provider.configured
    /\ Cardinality(Warnings) >= 2
    /\ ~HasError(provider.diags)
    /\ ~provider.EphemeralResourceData.nil


\* The element validators ValueBased ran on the element at path p.
RanAt(p) == {k \in 1..Len(validation.ran) : validation.ran[k].path = p}

\* The diagnostics an element validator of ValueBased left at path p.
CombinationErrorsAt(p) ==
    {k \in 1..Len(validation.diags) :
        /\ validation.diags[k].path = p
        /\ validation.diags[k].summary = "Invalid Attribute Combination"}

\* C14: validation rejects a credentials list that names
\* client_secret_credential or client_certificate_credential while the
\* block of that name is absent; ValueBased runs for an element the
\* validator registered under the element's own value and no other, and
\* runs none and adds nothing for a null, unknown or unregistered element.
C14_ValueBasedRequiresBlock ==
    validation.done =>
        \A i \in 1..Len(data.Credentials) :
            /\ (/\ data.Credentials[i] \in {"client_secret_credential",
                                            "client_certificate_credential"}
                /\ BlockAt(data, data.Credentials[i]).state = "null")
               => /\ HasError(validation.diags)
                  /\ \E k \in CombinationErrorsAt(CredentialsIndexPath(i)) :
                        validation.diags[k].sev = "error"
            /\ data.Credentials[i] \in {"client_secret_credential",
                                        "client_certificate_credential"}
               => /\ Cardinality(RanAt(CredentialsIndexPath(i))) = 1
                  /\ \A k \in RanAt(CredentialsIndexPath(i)) :
                        validation.ran[k].key = data.Credentials[i]
            /\ data.Credentials[i] \notin {"client_secret_credential",
                                           "client_certificate_credential"}
               => /\ RanAt(CredentialsIndexPath(i)) = {}
                  /\ CombinationErrorsAt(CredentialsIndexPath(i)) = {}

\* A list that asks for the client secret credential without its block,
\* next to an unknown element: one validator ran, and it rejected.
C14_Witness ==
    /\ validation.done
    /\ data.Credentials = <<UNKNOWN, "client_secret_credential">>
    /\ data.ClientSecretCredential = NullObject
    /\ Len(validation.ran) = 1
    /\ CombinationErrorsAt(CredentialsIndexPath(2)) # {}
    /\ CombinationErrorsAt(CredentialsIndexPath(1)) = {}


\* C15: the chain is built by the one provider Configure and fixed from
\* then on, and a resource that holds it keeps it; a step that changes the
\* Open response of a resource changes neither that resource's chain
\* reference, nor the chain and its list of sources, nor anything of the
\* other resources, and a token it returns is the one source `by` of that
\* same chain issued for the options of its own request.
C15_OpenLeavesChainUnchanged ==
    [][\A r \in Resources :
          /\ provider.configured => provider' = provider
          /\ ~resources[r].credential.nil =>
                resources'[r].credential = resources[r].credential
          /\ resources'[r].open # resources[r].open =>
                /\ provider' = provider
                /\ resources'[r].credential = resources[r].credential
                /\ \A o \in Resources \ {r} : resources'[o] = resources[o]
                /\ resources'[r].open.status = "ok" =>
                      /\ resources[r].credential = provider.cred
                      /\ resources'[r].open.by \in 1..Len(provider.cred.sources)
                      /\ resources'[r].open.token[1] =
                            provider.cred.sources[resources'[r].open.by].type
                      /\ resources'[r].open.token[2].Scopes = resources'[r].open.req.Scopes
      ]_vars

\* Both resources opened on the same chain of two sources, one refused
\* and one served by the second source.
C15_Witness ==
    /\ Len(provider.cred.sources) = 2
    /\ resources["r1"].credential = provider.cred
    /\ resources["r2"].credential = provider.cred
    /\ resources["r1"].open.status = "ok"
    /\ resources["r1"].open.by = 2
    /\ resources["r2"].open.got.kind = "err"


\* The calls of SDK constructors made for list entry i.
CallsAt(i) == {k \in 1..Len(provider.calls) : provider.calls[k].idx = i}

\* The certificate file of the configuration cannot be read (no path, or
\* the file is not there), or is read and cannot be parsed.
CertificateUnreadable ==
    data.ClientCertificateCredential.state # "known" \/ world.cert = "unreadable"

CertificateMalformed ==
    data.ClientCertificateCredential.state = "known" /\ world.cert = "malformed"

\* No entry before i records an error: each is a supported credential
\* other than the certificate one.
NoErrorBefore(i) ==
    \A j \in 1..(i - 1) :
        data.Credentials[j] \in CredentialTypes \ {"client_certificate_credential"}

\* C16: for a client_certificate_credential entry whose certificate file
\* cannot be read or parsed there is an error diagnostic on the block (so
\* the chain is not published), no chain entry, no constructor call and no
\* warning for the entry; with a good file the constructor is called, no
\* read or parse error is recorded, and a failing constructor gives a
\* warning on the entry.
C16_CertificateFailureIsError ==
    provider.configured =>
        \A i \in 1..Len(data.Credentials) :
            data.Credentials[i] = "client_certificate_credential" =>
                /\ (CertificateUnreadable \/ CertificateMalformed) =>
                      /\ \E k \in DiagsAt(<<"client_certificate_credential">>) :
                            provider.diags[k].sev = "error"
                      /\ CallsAt(i) = {}
                      /\ ~BuiltAt(i)
                      /\ DiagsAt(CredentialsIndexPath(i)) = {}
                      /\ provider.EphemeralResourceData.nil
                /\ (CertificateUnreadable /\ NoErrorBefore(i)) =>
                      \E k \in DiagsAt(<<"client_certificate_credential">>) :
                          provider.diags[k].summary = "Failed to read certificate file"
                /\ (CertificateMalformed /\ NoErrorBefore(i)) =>
                      \E k \in DiagsAt(<<"client_certificate_credential">>) :
                          provider.diags[k].summary = "Failed to parse certificate file"
                /\ (~CertificateUnreadable /\ ~CertificateMalformed /\ NoErrorBefore(i)) =>
                      /\ Cardinality(CallsAt(i)) = 1
                      /\ \A k \in DiagsAt(<<"client_certificate_credential">>) :
                            provider.diags[k].summary \notin
                                {"Failed to read certificate file",
                                 "Failed to parse certificate file"}
                      /\ ConstructorFailedAt(i) =>
                            /\ ~BuiltAt(i)
                            /\ \A k \in DiagsAt(CredentialsIndexPath(i)) :
                                  provider.diags[k].sev = "warning"
                            /\ DiagsAt(CredentialsIndexPath(i)) # {}

\* A certificate that does not parse, after a credential that was built.
C16_Witness ==
    /\ provider.configured
    /\ data.Credentials = <<"azure_cli_credential", "client_certificate_credential">>
    /\ CertificateMalformed
    /\ BuiltAt(1)
    /\ CallsAt(2) = {}
    /\ provider.EphemeralResourceData.nil


\* C17: a requested name that is none of the seven types leaves exactly
\* one diagnostic at its list index, an error, and no chain entry and no
\* constructor call; every other entry of the list is still handled: a
\* supported entry whose constructor is always called and succeeds is in
\* the chain, and another unsupported entry has its own error.
C17_UnknownNameOneErrorOthersProcessed ==
    provider.configured =>
        \A i \in 1..Len(data.Credentials) :
            data.Credentials[i] \notin CredentialTypes =>
                /\ Cardinality(DiagsAt(CredentialsIndexPath(i))) = 1
                /\ \A k \in DiagsAt(CredentialsIndexPath(i)) :
                      /\ provider.diags[k].sev = "error"
                      /\ provider.diags[k].summary = "Invalid Credential type"
                /\ ~BuiltAt(i)
                /\ CallsAt(i) = {}
                /\ \A j \in 1..Len(data.Credentials) :
                      /\ (j # i /\ data.Credentials[j] \in
                              {"environment_credential", "azure_cli_credential",
                               "managed_identity_credential"})
                         => /\ Cardinality(CallsAt(j)) = 1
                            /\ BuiltAt(j) <=> world.ctor[j] = "ok"
                      /\ (j # i /\ data.Credentials[j] \notin CredentialTypes)
                         => DiagsAt(CredentialsIndexPath(j)) # {}

\* An unsupported name first, a supported credential built after it.
C17_Witness ==
    /\ provider.configured
    /\ data.Credentials = <<"github_credential", "managed_identity_credential">>
    /\ Cardinality(DiagsAt(CredentialsIndexPath(1))) = 1
    /\ BuiltAt(2)
    /\ ~BuiltAt(1)


\* C18: in every state of the host lifecycle, a resource whose Open asked
\* for a token holds a chain that a Configure of the resource stored, and
\* an Open that ran on a resource without a chain ended with an error
\* diagnostic and did not dereference the nil reference.
C18_OpenOnlyOnStoredChain ==
    \A r \in Resources :
        /\ resources[r].open.got.kind # "none" =>
              /\ ~resources[r].credential.nil
              /\ resources[r].credential = provider.EphemeralResourceData
        /\ (resources[r].credential.nil /\ resources[r].open.status # "none") =>
              /\ resources[r].open.status = "error"
              /\ HasError(resources[r].open.diags)
        /\ ~crashed


\* A diagnostic saying that the block of credential c is missing.
MissingConfigurationFor(c) ==
    \E k \in DiagsAt(<<c>>) : provider.diags[k].summary = "Missing configuration"

\* C19: whatever the entries earlier in the list recorded, a credential
\* whose block is set is constructed from that block: the managed
\* identity, workload identity and pipelines constructors get the ids of
\* their blocks, and a client secret or client certificate block that is
\* set is not reported as missing.
C19_ParsedFromOwnBlock ==
    provider.configured =>
        \A i \in 1..Len(data.Credentials) :
            /\ (data.Credentials[i] = "managed_identity_credential"
                  /\ data.ManagedIdentityCredential.state = "known") =>
                 \A k \in CallsAt(i) :
                    provider.calls[k].args["ID"] = data.ManagedIdentityCredential.attrs.ClientID
            /\ (data.Credentials[i] = "workload_identity_credential"
                  /\ data.WorkloadIdentityCredential.state = "known") =>
                 \A k \in CallsAt(i) :
                    /\ provider.calls[k].args["ClientID"] =
                          data.WorkloadIdentityCredential.attrs.ClientID
                    /\ provider.calls[k].args["TenantID"] =
                          data.WorkloadIdentityCredential.attrs.TenantID
            /\ (data.Credentials[i] = "azure_pipelines_credential"
                  /\ data.AzurePipelinesCredential.state = "known") =>
                 \A k \in CallsAt(i) :
                    /\ provider.calls[k].args["ClientID"] =
                          data.AzurePipelinesCredential.attrs.ClientID
                    /\ provider.calls[k].args["TenantID"] =
                          data.AzurePipelinesCredential.attrs.TenantID
            /\ (data.Credentials[i] = "client_secret_credential"
                  /\ data.ClientSecretCredential.state = "known") =>
                 ~MissingConfigurationFor("client_secret_credential")
            /\ (data.Credentials[i] = "client_certificate_credential"
                  /\ data.ClientCertificateCredential.state = "known") =>
                 ~MissingConfigurationFor("client_certificate_credential")


\* The credential types whose block the schema leaves optional and the
\* code parses without asking for it.
OptionalBlockTypes ==
    {"azure_pipelines_credential", "workload_identity_credential",
     "managed_identity_credential"}

\* The configuration d with each absent optional block replaced by a block
\* that is present with every field unset.
AbsentAsUnset(d) ==
    [d EXCEPT
        !.AzurePipelinesCredential =
            IF @.state = "null" THEN KnownObject(ZeroModel(APcFields)) ELSE @,
        !.WorkloadIdentityCredential =
            IF @.state = "null" THEN KnownObject(ZeroModel(WIcFields)) ELSE @,
        !.ManagedIdentityCredential =
            IF @.state = "null" THEN KnownObject(ZeroModel(MIcFields)) ELSE @]

\* An error diagnostic on the block of credential c or on one of its fields.
ErrorOnBlock(c) ==
    \E k \in 1..Len(provider.diags) :
        /\ provider.diags[k].sev = "error"
        /\ Len(provider.diags[k].path) >= 1
        /\ provider.diags[k].path[1] = c

\* An entry of an optional-block type whose block is absent: one
\* constructor call, no error on the block, and for the pipelines
\* credential the ids taken from the environment.
AbsentBlockConstructed(i) ==
    /\ Cardinality(CallsAt(i)) = 1
    /\ ~ErrorOnBlock(data.Credentials[i])
    /\ data.Credentials[i] = "azure_pipelines_credential" =>
          \A k \in CallsAt(i) :
             /\ provider.calls[k].args["TenantID"] = ResolvedAPc(1)
             /\ provider.calls[k].args["ClientID"] = ResolvedAPc(2)
             /\ provider.calls[k].args["ServiceConnectionID"] = ResolvedAPc(3)

\* C20: for azure_pipelines, workload_identity and managed_identity an
\* absent block records no error and the constructor is still called, with
\* the environment's values for the tagged fields; and Configure ends
\* exactly as it does on the same configuration with those blocks present
\* and every field unset.
C20_AbsentBlockAsAllUnset ==
    provider.configured =>
        /\ \A i \in 1..Len(data.Credentials) :
              (/\ data.Credentials[i] \in OptionalBlockTypes
               /\ BlockAt(data, data.Credentials[i]).state = "null")
              => AbsentBlockConstructed(i)
        /\ provider = ConfigureResponse(setupCredentialChain(AbsentAsUnset(data), env, world))


\* C21: a Configure of an ephemeral resource changes the stored chain
\* reference only when it is given a credential chain, and then stores that
\* chain without a diagnostic; given nil it adds no diagnostic and leaves the
\* reference as it was; given a value of any other type it adds exactly one
\* diagnostic, an error, and leaves the reference as it was.
C21_ConfigureStoresOnlyChains ==
    [][\A r \in Resources :
          /\ resources'[r].credential # resources[r].credential =>
                /\ resources'[r].configure.data = "*azidentity.ChainedTokenCredential"
                /\ resources'[r].configure.diags = <<>>
                /\ resources'[r].credential = provider.EphemeralResourceData
          /\ resources'[r].configure.data = "nil" =>
                /\ resources'[r].configure.diags = <<>>
                /\ resources'[r].credential = resources[r].credential
          /\ resources'[r].configure.data \notin
                {"nil", "*azidentity.ChainedTokenCredential"} =>
                /\ Len(resources'[r].configure.diags) = 1
                /\ resources'[r].configure.diags[1].sev = "error"
                /\ resources'[r].credential = resources[r].credential
      ]_vars

\* An instance that holds the published chain and was then given a value
\* of another type, next to one that was only ever given nil.
C21_Witness ==
    /\ ~resources["r1"].credential.nil
    /\ resources["r1"].credential = provider.EphemeralResourceData
    /\ resources["r1"].configure.data = "string"
    /\ Len(resources["r1"].configure.diags) = 1
    /\ resources["r2"].credential.nil
    /\ resources["r2"].configure.data = "nil"
    /\ provider.configured

====
